---------------------------- MODULE Spec2Model ----------------------------
(***************************************************************************)
(* A model of main.py of luma-attendee-scraper: scrape_luma_event wrapped  *)
(* in handle_exceptions.  Texts read from the page (display names) are     *)
(* sequences of one-character strings, so that "@" in, str.split and       *)
(* str.capitalize are computed character by character.  An optional value  *)
(* (an attribute that may be None, an exception that may be pending) is a  *)
(* sequence of length 0 or 1.                                              *)
(***************************************************************************)
EXTENDS Integers, Sequences, FiniteSets, TLC

\* ------------------------------------------------------------------ bounds
MaxNameLen == 4
MaxEntries == 3
MaxCount == 6
MaxRounds == 5

\* ------------------------------------------------------- program constants
max_attempts == 3

\* ------------------------------------------------------------- characters
LowerLetters ==
    << "a","b","c","d","e","f","g","h","i","j","k","l","m",
       "n","o","p","q","r","s","t","u","v","w","x","y","z" >>

UpperLetters ==
    << "A","B","C","D","E","F","G","H","I","J","K","L","M",
       "N","O","P","Q","R","S","T","U","V","W","X","Y","Z" >>

\* str.isspace of one character, as str.split() with no separator uses it
IsSpace(ch) == ch \in {" ", "\t", "\n"}

Upper(ch) ==
    IF \E i \in 1..26 : LowerLetters[i] = ch
    THEN UpperLetters[CHOOSE i \in 1..26 : LowerLetters[i] = ch]
    ELSE ch

Lower(ch) ==
    IF \E i \in 1..26 : UpperLetters[i] = ch
    THEN LowerLetters[CHOOSE i \in 1..26 : UpperLetters[i] = ch]
    ELSE ch

\* str.capitalize(): first character upper-cased, the rest lower-cased
Capitalize(s) ==
    [i \in 1..Len(s) |-> IF i = 1 THEN Upper(s[i]) ELSE Lower(s[i])]

\* "@" in full_name
ContainsAt(s) == \E i \in 1..Len(s) : s[i] = "@"

\* the scan loops of str.split: the first index >= i that holds no whitespace
\* (SkipSpaces) or that holds whitespace (SkipToken); Len(s) + 1 if none
RECURSIVE SkipSpaces(_, _)
SkipSpaces(s, i) ==
    IF i <= Len(s) /\ IsSpace(s[i]) THEN SkipSpaces(s, i + 1) ELSE i

RECURSIVE SkipToken(_, _)
SkipToken(s, i) ==
    IF i <= Len(s) /\ ~IsSpace(s[i]) THEN SkipToken(s, i + 1) ELSE i

\* a plausible slip: full_name.split(" ", 1), which cuts at the first single space
SplitOnceAtSpace(s) ==
    IF \E i \in 1..Len(s) : s[i] = " "
    THEN LET k == CHOOSE i \in 1..Len(s) :
                     s[i] = " " /\ \A j \in 1..(i - 1) : s[j] # " "
         IN  << SubSeq(s, 1, k - 1), SubSeq(s, k + 1, Len(s)) >>
    ELSE << s >>

\* full_name.split(maxsplit=1): leading whitespace skipped, the first token,
\* then (after the whitespace run that follows it) the whole rest of the text
SplitOnce(s) ==
    LET b == SkipSpaces(s, 1)
        e == SkipToken(s, b)
        r == SkipSpaces(s, e)
    IN  IF b > Len(s) THEN << >>
        ELSE IF r > Len(s) THEN << SubSeq(s, b, e - 1) >>
        ELSE << SubSeq(s, b, e - 1), SubSeq(s, r, Len(s)) >>


\* ---------------------------------------------------------- record extractor
\* what one pass of the body of "for element in participant_elements" does:
\* "skip" (continue), "raise" (name_parts[0] on an empty list: IndexError) or
\* "candidate" (participants.append), with the appended dict in cand
NoCandidate(k) == [kind |-> k, cand |-> << >>]

\* a plausible slip: only a leading "@" is taken for an email placeholder
ContainsAtFirstOnly(s) == Len(s) > 0 /\ s[1] = "@"

LooksLikeEmail(s) == ContainsAt(s)

ExtractEntry(e) ==
    IF LooksLikeEmail(e.name) THEN NoCandidate("skip")
    ELSE LET name_parts == SplitOnce(e.name)
         IN  IF name_parts = << >> THEN NoCandidate("raise")
             ELSE IF e.href = << >> \/ e.href = << "" >> THEN NoCandidate("skip")
             ELSE [kind |-> "candidate",
                   cand |-> << [first_name  |-> Capitalize(name_parts[1]),
                                last_name   |-> IF Len(name_parts) > 1
                                                THEN Capitalize(name_parts[2])
                                                ELSE << >>,
                                profile_url |-> "https://lu.ma" \o e.href[1],
                                linkedin    |-> << >>] >>]

\* the whole loop over the elements: the participants built so far, and whether
\* an entry raised (the loop stops there)
RECURSIVE ExtractAll(_, _)
ExtractAll(els, acc) ==
    IF els = << >> THEN [raised |-> FALSE, participants |-> acc]
    ELSE LET r == ExtractEntry(Head(els))
         IN  IF r.kind = "raise" THEN [raised |-> TRUE, participants |-> acc]
             ELSE ExtractAll(Tail(els), acc \o r.cand)

\* ------------------------------------------------------------------ inputs
SeqsUpTo(S, n) == UNION { [1..k -> S] : k \in 0..n }

JaneDoe == << "J","a","n","e"," ","D","o","e" >>
Madonna == << "M","a","d","o","n","n","a" >>
UserEmail == << "u","s","e","r","@","e","x","a","m","p","l","e",".","c","o","m" >>

NameAlphabet == {"a", "B", " ", "\t", "@"}
Names == SeqsUpTo(NameAlphabet, MaxNameLen) \cup {JaneDoe, Madonna, UserEmail}
Hrefs == { << >>, << "" >>, << "/user/usr-1" >>, << "/user/usr-2" >> }
Entries == [name : Names, href : Hrefs]

\* what the fresh query after the loading loop may return in a whole run
RunNames == {JaneDoe, UserEmail, << " " >>}
RunHrefs == { << >>, << "/user/usr-1" >>, << "/user/usr-2" >> }
RunEntries == [name : RunNames, href : RunHrefs]

\* the rendered counts a round may read: of a whole run, and of the loop alone
RunCounts == 0..MaxEntries
Counts == 0..MaxCount

\* the event page: an in-person event shows its place as a link with a title
\* and a description, a virtual one as plain text
Pages ==
    { [title |-> "AI for Developers", date |-> "Friday, May 2", time |-> "6:00 PM",
       irl |-> TRUE, place_title |-> "Shack15", place_desc |-> "San Francisco",
       host |-> "GitAuto"],
      [title |-> "Office Hours", date |-> "Monday, May 5", time |-> "9:00 AM",
       irl |-> FALSE, place_title |-> "Zoom", place_desc |-> "",
       host |-> "Luma Labs"] }

\* what a profile page shows for '.social-links a[href*="linkedin.com"]':
\* the number of matches and the first match's href attribute
LinkOutcomes ==
    { [count |-> 0, href |-> << >>],
      [count |-> 1, href |-> << >>],
      [count |-> 1, href |-> << "" >>],
      [count |-> 1, href |-> << "https://linkedin.com/in/jane" >>] }

\* ------------------------------------------------------------------- state
VARIABLES
    pc,                         \* the statement scrape_luma_event is at
    failed_at,                  \* the step whose statement raised, or "none"
    printed,                    \* "An error occurred: ..." was printed
    session_file,               \* luma-auth.json exists in Downloads
    session_path,               \* the local: << >> for None
    session_writes,             \* how often context.storage_state(path=) ran
    login_state,                \* NoSession, AwaitingCode, Authenticated
    state_log,                  \* the login states entered, in order
    trace,                      \* the page-driver and console events, in order
    page,                       \* the event page's content
    event_title, event_date, event_time, event_place, event_host,
    current_participant_count, last_participant_count, attempts,
    total_loaded,               \* "Total participants loaded": << >> until printed
    reads,                      \* every count read so far (loop alone)
    window,                     \* the last max_attempts + 1 counts read
    frozen,                     \* << c >> once the page will never show another count
    participants,               \* the local list of dicts
    idx,                        \* position of the profile-visit loop
    extracted,                  \* participants as the record extractor left it
    links,                      \* what each visited profile page showed
    csv_open,                   \* luma_participants.csv was opened for writing
    csv_header,                 \* the header row was written
    csv_rows,                   \* the rows written
    entry,                      \* one rendered guest entry (extractor alone)
    outcome                     \* what extracting it did: << >> until applied

runVars == << pc, failed_at, printed >>
sessionVars == << session_file, session_path, session_writes, login_state,
                  state_log, trace >>
metaVars == << page, event_title, event_date, event_time, event_place, event_host >>
loopVars == << current_participant_count, last_participant_count, attempts,
               total_loaded >>
historyVars == << reads, window, frozen >>
pipeVars == << participants, idx, extracted, links >>
csvVars == << csv_open, csv_header, csv_rows >>
probeVars == << entry, outcome >>

vars == << runVars, sessionVars, metaVars, loopVars, historyVars, pipeVars,
           csvVars, probeVars >>

\* ---------------------------------------------------------------- helpers
AuthFile == "luma-auth.json"

\* event_place: "<title>, <desc>" of the link for an in-person event, the
\* text of the row for a virtual one
PlaceText(p) ==
    IF p.irl THEN p.place_title \o ", " \o p.place_desc ELSE p.place_title

\* a plausible slip: the sentinel -1 for "no count read yet"
LoopLocalsSentinel ==
    [current_participant_count |-> 0, last_participant_count |-> -1, attempts |-> 0]

\* the locals as set right before the while loop
LoopLocals ==
    [current_participant_count |-> 0, last_participant_count |-> 0, attempts |-> 0]

\* a plausible slip: last_participant_count updated before the comparison
StableRoundsAfterUpdate(current, last, n) == n + 1

\* a plausible slip: the else branch that resets the counter is missing
StableRoundsNoReset(current, last, n) == IF current = last THEN n + 1 ELSE n

\* attempts after a round that read current, last being the previous round's
StableRounds(current, last, n) == IF current = last THEN n + 1 ELSE 0

\* one profile visit: the dict gets its "linkedin" key only for a non-empty href
VisitProfile(p, o) ==
    IF o.count = 0 THEN p
    ELSE IF o.href = << >> \/ o.href = << "" >> THEN p
    ELSE [p EXCEPT !.linkedin = o.href]

HasLinkedin(p) == p.linkedin # << >>

\* a plausible slip: a second dict with a profile_url already kept is dropped
RECURSIVE DedupByProfile(_, _)
DedupByProfile(ps, acc) ==
    IF ps = << >> THEN acc
    ELSE DedupByProfile(Tail(ps),
            IF \/ ~HasLinkedin(Head(ps))
               \/ \E i \in 1..Len(acc) : acc[i].profile_url = Head(ps).profile_url
            THEN acc ELSE Append(acc, Head(ps)))

FilterParticipantsDedup(ps) == DedupByProfile(ps, << >>)

\* [p for p in participants if "linkedin" in p]
FilterParticipants(ps) == SelectSeq(ps, HasLinkedin)

Fieldnames ==
    << "first_name", "last_name", "linkedin", "custom_att_1", "custom_att_2",
       "custom_att_3", "custom_att_4", "custom_att_5", "custom_att_6" >>

\* a plausible slip: the date and the time written to each other's column
CsvRowSwapped(p) ==
    [first_name |-> p.first_name, last_name |-> p.last_name,
     linkedin |-> p.linkedin[1],
     custom_att_1 |-> event_title, custom_att_2 |-> event_time,
     custom_att_3 |-> event_date, custom_att_4 |-> event_place,
     custom_att_5 |-> event_host, custom_att_6 |-> "Luma"]

\* participant_data of one participant
CsvRow(p) ==
    [first_name |-> p.first_name, last_name |-> p.last_name,
     linkedin |-> p.linkedin[1],
     custom_att_1 |-> event_title, custom_att_2 |-> event_date,
     custom_att_3 |-> event_time, custom_att_4 |-> event_place,
     custom_att_5 |-> event_host, custom_att_6 |-> "Luma"]

LastN(s, n) == IF Len(s) <= n THEN s ELSE SubSeq(s, Len(s) - n + 1, Len(s))

\* ----------------------------------------------------------- initial state
\* before the first statement of scrape_luma_event: the session file may or may
\* not be there, and the event page is one of Pages
NotStarted ==
    /\ failed_at = "none" /\ printed = FALSE
    /\ session_path = << >> /\ session_writes = 0
    /\ login_state = "unknown" /\ state_log = << >> /\ trace = << >>
    /\ event_title = "" /\ event_date = "" /\ event_time = ""
    /\ event_place = "" /\ event_host = ""
    /\ current_participant_count = 0 /\ last_participant_count = 0
    /\ attempts = 0 /\ total_loaded = << >>
    /\ reads = << >> /\ window = << >> /\ frozen = << >>
    /\ participants = << >> /\ idx = 1 /\ extracted = << >> /\ links = << >>
    /\ csv_open = FALSE /\ csv_header = << >> /\ csv_rows = << >>

Init ==
    /\ pc = "start"
    /\ session_file \in BOOLEAN
    /\ page \in Pages
    /\ NotStarted
    /\ entry = [name |-> << >>, href |-> << >>] /\ outcome = << >>

\* ------------------------------------------------------------ session store
\* a plausible slip: the stored session is ignored and every run logs in
StartRunAlwaysLogin ==
    /\ pc = "start"
    /\ session_path' = << >>
    /\ login_state' = "NoSession"
    /\ state_log' = Append(state_log, "NoSession")
    /\ trace' = Append(trace, "new_context")
    /\ pc' = "login_page"
    /\ UNCHANGED << failed_at, printed, session_file, session_writes, metaVars,
                    loopVars, historyVars, pipeVars, csvVars, probeVars >>

\* session_path is the file if it exists, else None; the browser context is
\* created from it
StartRun ==
    /\ pc = "start"
    /\ session_path' = IF session_file THEN << AuthFile >> ELSE << >>
    /\ login_state' = IF session_file THEN "Authenticated" ELSE "NoSession"
    /\ state_log' = Append(state_log, login_state')
    /\ trace' = Append(trace, "new_context")
    /\ pc' = IF session_file THEN "goto_event" ELSE "login_page"
    /\ UNCHANGED << failed_at, printed, session_file, session_writes, metaVars,
                    loopVars, historyVars, pipeVars, csvVars, probeVars >>

\* page.goto(login_url) and the wait for the network to go idle
LoginPage ==
    /\ pc = "login_page"
    /\ trace' = Append(trace, "goto_login")
    /\ pc' = "login_email"
    /\ UNCHANGED << failed_at, printed, session_file, session_path, session_writes,
                    login_state, state_log, metaVars, loopVars, historyVars,
                    pipeVars, csvVars, probeVars >>

\* the email is filled in, the code is requested, the "Enter Code" heading shows
LoginEmail ==
    /\ pc = "login_email"
    /\ trace' = trace \o << "fill_email", "request_code" >>
    /\ login_state' = "AwaitingCode"
    /\ state_log' = Append(state_log, "AwaitingCode")
    /\ pc' = "login_code"
    /\ UNCHANGED << failed_at, printed, session_file, session_path, session_writes,
                    metaVars, loopVars, historyVars, pipeVars, csvVars, probeVars >>

\* input() blocks for the verification code, which is typed into the page
LoginCode ==
    /\ pc = "login_code"
    /\ trace' = trace \o << "console_read", "fill_code" >>
    /\ pc' = "login_marker"
    /\ UNCHANGED << failed_at, printed, session_file, session_path, session_writes,
                    login_state, state_log, metaVars, loopVars, historyVars,
                    pipeVars, csvVars, probeVars >>

\* the avatar shows within the timeout: logged in
LoginMarker ==
    /\ pc = "login_marker"
    /\ trace' = Append(trace, "marker_seen")
    /\ login_state' = "Authenticated"
    /\ state_log' = Append(state_log, "Authenticated")
    /\ pc' = "login_save"
    /\ UNCHANGED << failed_at, printed, session_file, session_path, session_writes,
                    metaVars, loopVars, historyVars, pipeVars, csvVars, probeVars >>

\* context.storage_state(path=...) writes the session file
SaveSession ==
    /\ pc = "login_save"
    /\ session_file' = TRUE
    /\ session_writes' = session_writes + 1
    /\ trace' = Append(trace, "persist")
    /\ pc' = "goto_event"
    /\ UNCHANGED << failed_at, printed, session_path, login_state, state_log,
                    metaVars, loopVars, historyVars, pipeVars, csvVars, probeVars >>

\* ------------------------------------------------------- event page, modal
GotoEvent ==
    /\ pc = "goto_event"
    /\ trace' = Append(trace, "goto_event")
    /\ pc' = "metadata"
    /\ UNCHANGED << failed_at, printed, session_file, session_path, session_writes,
                    login_state, state_log, metaVars, loopVars, historyVars,
                    pipeVars, csvVars, probeVars >>

Metadata ==
    /\ pc = "metadata"
    /\ event_title' = page.title
    /\ event_date' = page.date
    /\ event_time' = page.time
    /\ event_place' = PlaceText(page)
    /\ event_host' = page.host
    /\ pc' = "open_guests"
    /\ UNCHANGED << failed_at, printed, sessionVars, page, loopVars, historyVars,
                    pipeVars, csvVars, probeVars >>

\* the guests button is clicked, the modal shows, the loop's locals are set
OpenGuests ==
    /\ pc = "open_guests"
    /\ current_participant_count' = LoopLocals.current_participant_count
    /\ last_participant_count' = LoopLocals.last_participant_count
    /\ attempts' = LoopLocals.attempts
    /\ pc' = "loop"
    /\ UNCHANGED << failed_at, printed, sessionVars, metaVars, total_loaded,
                    historyVars, pipeVars, csvVars, probeVars >>

\* ------------------------------------------------------------- loading loop
\* one pass of "while attempts < max_attempts" that reads the count c; after the
\* pass that makes the condition false the total is printed
LoadRound(c) ==
    /\ pc = "loop"
    /\ attempts < max_attempts
    /\ current_participant_count' = c
    /\ attempts' = StableRounds(c, last_participant_count, attempts)
    /\ last_participant_count' = c
    /\ IF attempts' < max_attempts
       THEN pc' = "loop" /\ total_loaded' = total_loaded
       ELSE pc' = "extract" /\ total_loaded' = << c >>
    /\ UNCHANGED << failed_at, printed, sessionVars, metaVars, pipeVars, csvVars,
                    probeVars >>

\* ----------------------------------------------------------------- pipeline
\* the elements are queried afresh and turned into participants; an entry
\* that raises ends the run's try block
Extract ==
    /\ pc = "extract"
    /\ \E els \in SeqsUpTo(RunEntries, MaxEntries) :
          LET r == ExtractAll(els, << >>)
          IN  /\ participants' = r.participants
              /\ extracted' = IF r.raised THEN extracted ELSE r.participants
              /\ failed_at' = IF r.raised THEN "extract" ELSE failed_at
              /\ pc' = IF r.raised THEN "except"
                       ELSE IF r.participants = << >> THEN "filter" ELSE "resolve"
    /\ idx' = 1
    /\ UNCHANGED << printed, sessionVars, metaVars, loopVars, historyVars, links,
                    csvVars, probeVars >>

\* one pass of "for participant in participants": the profile page shows o
Resolve(o) ==
    /\ pc = "resolve"
    /\ idx <= Len(participants)
    /\ participants' = [participants EXCEPT ![idx] = VisitProfile(@, o)]
    /\ links' = Append(links, o)
    /\ idx' = idx + 1
    /\ pc' = IF idx' > Len(participants) THEN "filter" ELSE "resolve"
    /\ UNCHANGED << failed_at, printed, sessionVars, metaVars, loopVars,
                    historyVars, extracted, csvVars, probeVars >>

Filter ==
    /\ pc = "filter"
    /\ participants' = FilterParticipants(participants)
    /\ pc' = "export"
    /\ UNCHANGED << failed_at, printed, sessionVars, metaVars, loopVars,
                    historyVars, idx, extracted, links, csvVars, probeVars >>

\* the file is opened, the header and one row per participant are written
Export ==
    /\ pc = "export"
    /\ csv_open' = TRUE
    /\ csv_header' = Fieldnames
    /\ csv_rows' = [i \in 1..Len(participants) |-> CsvRow(participants[i])]
    /\ pc' = "close"
    /\ UNCHANGED << failed_at, printed, sessionVars, metaVars, loopVars,
                    historyVars, pipeVars, probeVars >>

\* browser.close(); the function returns
Close ==
    /\ pc = "close"
    /\ pc' = "returned"
    /\ UNCHANGED << failed_at, printed, sessionVars, metaVars, loopVars,
                    historyVars, pipeVars, csvVars, probeVars >>

\* ------------------------------------------------------- handle_exceptions
\* the steps whose statements call the page driver, the console or the file
\* system, any of which may raise
RaisingSteps ==
    { "start", "login_page", "login_email", "login_code", "login_marker",
      "login_save", "goto_event", "metadata", "open_guests", "loop", "extract",
      "resolve", "export", "close" }

\* a statement of the step raises before it changes anything the model keeps
StepRaises ==
    /\ pc \in RaisingSteps
    /\ failed_at' = pc
    /\ pc' = "except"
    /\ UNCHANGED << printed, sessionVars, metaVars, loopVars, historyVars,
                    pipeVars, csvVars, probeVars >>

\* a plausible slip: the handler saves what was collected before the failure
HandleExceptionSavesPartial ==
    /\ pc = "except"
    /\ printed' = TRUE
    /\ csv_open' = TRUE
    /\ csv_header' = Fieldnames
    /\ csv_rows' = LET ps == FilterParticipants(participants)
                   IN  [i \in 1..Len(ps) |-> CsvRow(ps[i])]
    /\ pc' = "returned"
    /\ UNCHANGED << failed_at, sessionVars, metaVars, loopVars, historyVars,
                    pipeVars, probeVars >>

\* except Exception: the message is printed and None is returned
HandleException ==
    /\ pc = "except"
    /\ printed' = TRUE
    /\ pc' = "returned"
    /\ UNCHANGED << failed_at, sessionVars, metaVars, loopVars, historyVars,
                    pipeVars, csvVars, probeVars >>

\* ---------------------------------------------------------- specifications
\* a whole run
Next ==
    \/ StartRun
    \/ LoginPage
    \/ LoginEmail
    \/ LoginCode
    \/ LoginMarker
    \/ SaveSession
    \/ GotoEvent
    \/ Metadata
    \/ OpenGuests
    \/ \E c \in RunCounts : LoadRound(c) /\ UNCHANGED historyVars
    \/ Extract
    \/ \E o \in LinkOutcomes : Resolve(o)
    \/ Filter
    \/ Export
    \/ Close
    \/ StepRaises
    \/ HandleException

Spec == Init /\ [][Next]_vars

\* the loading loop alone, from the state OpenGuests leaves in a run that
\* found its session file, with every count read so far kept
AtLoopEntry ==
    /\ pc = "loop"
    /\ page \in Pages
    /\ failed_at = "none" /\ printed = FALSE
    /\ session_file = TRUE /\ session_path = << AuthFile >> /\ session_writes = 0
    /\ login_state = "Authenticated" /\ state_log = << "Authenticated" >>
    /\ trace = << "new_context", "goto_event" >>
    /\ event_title = page.title /\ event_date = page.date
    /\ event_time = page.time /\ event_place = PlaceText(page)
    /\ event_host = page.host
    /\ current_participant_count = LoopLocals.current_participant_count
    /\ last_participant_count = LoopLocals.last_participant_count
    /\ attempts = LoopLocals.attempts
    /\ total_loaded = << >>
    /\ reads = << >> /\ window = << >> /\ frozen = << >>
    /\ participants = << >> /\ idx = 1 /\ extracted = << >> /\ links = << >>
    /\ csv_open = FALSE /\ csv_header = << >> /\ csv_rows = << >>
    /\ entry = [name |-> << >>, href |-> << >>] /\ outcome = << >>

LoopRound ==
    \E c \in Counts :
        /\ Len(reads) < MaxRounds
        /\ LoadRound(c)
        /\ reads' = Append(reads, c)
        /\ UNCHANGED << window, frozen >>

LoopSpec == AtLoopEntry /\ [][LoopRound]_vars

\* the loading loop alone with no bound on its rounds: the last
\* max_attempts + 1 counts are kept, and frozen records that the page has
\* reached a count c it will show from now on
LiveRound ==
    \E c \in Counts, settles \in BOOLEAN :
        /\ frozen # << >> => c = frozen[1]
        /\ LoadRound(c)
        /\ frozen' = IF frozen = << >> /\ settles THEN << c >> ELSE frozen
        /\ window' = LastN(Append(window, c), max_attempts + 1)
        /\ UNCHANGED reads

\* the rounds follow each other after fixed waits: a round that can run, runs
LiveSpec == AtLoopEntry /\ [][LiveRound]_vars /\ WF_vars(LiveRound)

\* the record extractor alone, applied to one rendered entry
ExtractInit ==
    /\ pc = "start"
    /\ session_file \in BOOLEAN
    /\ page \in Pages
    /\ NotStarted
    /\ entry \in Entries
    /\ outcome = << >>

ExtractOne ==
    /\ outcome = << >>
    /\ outcome' = << ExtractEntry(entry) >>
    /\ UNCHANGED << runVars, sessionVars, metaVars, loopVars, historyVars,
                    pipeVars, csvVars, entry >>

ExtractSpec == ExtractInit /\ [][ExtractOne]_vars

\* =================================================================== claims
Terminated == pc = "extract"

\* ---- loading loop, with every read kept (LoopSpec)

\* C1 as stated: with threshold 3 and last_count = 0, stable_rounds = 0 at the
\* start, the loop fed the reads 5,5,5 has terminated after exactly 3 rounds
\* and reports 5, and fed 5,6,6,6 has terminated after exactly 4 rounds and
\* reports 6.
C1_TerminatesOnThirdEqualRead ==
    /\ reads = << 5, 5, 5 >> => Terminated /\ total_loaded = << 5 >>
    /\ reads = << 5, 6, 6, 6 >> => Terminated /\ total_loaded = << 6 >>

\* C1 amended: the loop terminates in the round that delivers the third
\* consecutive read equal to the read of the round before it.  Fed 5,5,5 it is
\* still running with stable_rounds = 2 and the fourth 5 terminates it (4
\* rounds, count 5); fed 5,6,6,6 it is still running with stable_rounds = 2 and
\* the fourth 6 terminates it (5 rounds, count 6).
C1_TerminatesOnThirdUnchangedRound ==
    /\ reads = << 5, 5, 5 >> => ~Terminated /\ attempts = 2
    /\ reads = << 5, 5, 5, 5 >> => Terminated /\ total_loaded = << 5 >>
    /\ reads = << 5, 6, 6, 6 >> => ~Terminated /\ attempts = 2
    /\ reads = << 5, 6, 6, 6, 6 >> => Terminated /\ total_loaded = << 6 >>
    /\ Terminated =>
          /\ Len(reads) >= max_attempts
          /\ \A i \in (Len(reads) - max_attempts + 1)..Len(reads) :
                reads[i] = IF i = 1 THEN 0 ELSE reads[i - 1]
          /\ total_loaded = << reads[Len(reads)] >>

C1_Witness == reads = << 5, 6, 6, 6, 6 >> /\ Terminated

AllReads(c) == Len(reads) >= 1 /\ \A i \in 1..Len(reads) : reads[i] = c

\* C10: last_count starts at 0, so a first read of 0 already counts as an
\* unchanged round: the reads 0,0,0 terminate the loop after exactly 3 rounds
\* reporting 0, while a constant non-zero count c terminates it only with its
\* 4th read (one round more than the threshold), reporting c.
C10_ZeroFirstReadCountsAsUnchanged ==
    /\ AllReads(0) =>
          /\ Len(reads) <= max_attempts
          /\ attempts = Len(reads)
          /\ Terminated <=> Len(reads) = max_attempts
          /\ Terminated => total_loaded = << 0 >>
    /\ \A c \in 1..MaxCount :
          AllReads(c) =>
             /\ Len(reads) <= max_attempts + 1
             /\ attempts = Len(reads) - 1
             /\ Terminated <=> Len(reads) = max_attempts + 1
             /\ Terminated => total_loaded = << c >>

C10_Witness == reads = << 0, 0, 0 >> /\ Terminated /\ total_loaded = << 0 >>

\* ---- loading loop, unbounded (LiveSpec)

\* the counts of the last rounds, each after the one read the round before it
Unchanged(w, i) == w[i] = w[i - 1]

\* C9 as stated: the loop has terminated only if the last three rounds each
\* read the same count as the round before them (so four rounds have run).
C9_TerminatesOnlyAfterThreeRepeatedRounds ==
    Terminated =>
        /\ Len(window) = max_attempts + 1
        /\ \A i \in 2..(max_attempts + 1) : Unchanged(window, i)

\* the window with the initial last_count (0) put before the first read while
\* fewer than max_attempts + 1 rounds have run
WithInitial == IF Len(window) <= max_attempts THEN << 0 >> \o window ELSE window

LastRoundsUnchanged ==
    /\ Len(WithInitial) = max_attempts + 1
    /\ \A i \in 2..(max_attempts + 1) : Unchanged(WithInitial, i)

\* C9 amended: the loop has no round cap and terminates exactly when
\* stable_rounds reaches 3, that is exactly when the last three rounds each
\* read the count read the round before, the initial last_count 0 standing for
\* the read before the first round; once the rendered count never changes
\* again the loop eventually terminates and reports that count.
C9_TerminatesExactlyWhenStable ==
    /\ [](Terminated <=> attempts = max_attempts)
    /\ [](Terminated <=> LastRoundsUnchanged)
    /\ [](Terminated /\ frozen # << >> => total_loaded = frozen)
    /\ (frozen # << >>) ~> Terminated

C9_Witness ==
    /\ Terminated
    /\ frozen # << >>
    /\ frozen[1] # 0
    /\ Len(window) = max_attempts + 1
    /\ total_loaded = frozen

\* ---- a whole run (Spec)

\* C2: every row written has a non-empty linkedin value, and all rows of the
\* run carry the same custom attributes 1-6: the event page's title, date and
\* time, the place and host captured for the run, and the source tag "Luma".
C2_RowsHaveLinkAndRunMetadata ==
    /\ \A i \in 1..Len(csv_rows) :
          /\ csv_rows[i].linkedin # ""
          /\ csv_rows[i].custom_att_1 = page.title
          /\ csv_rows[i].custom_att_2 = page.date
          /\ csv_rows[i].custom_att_3 = page.time
          /\ csv_rows[i].custom_att_4 = event_place
          /\ csv_rows[i].custom_att_5 = page.host
          /\ csv_rows[i].custom_att_6 = "Luma"
    /\ \A i, j \in 1..Len(csv_rows) :
          \A a \in { "custom_att_1", "custom_att_2", "custom_att_3",
                     "custom_att_4", "custom_att_5", "custom_att_6" } :
             csv_rows[i][a] = csv_rows[j][a]

C2_Witness == pc = "returned" /\ failed_at = "none" /\ Len(csv_rows) >= 2

\* the profile page showed a non-empty LinkedIn link
LinkFound(o) == o.count > 0 /\ o.href # << >> /\ o.href # << "" >>

\* the rows expected of the candidates cs, given what their profile pages showed
RECURSIVE RowsOfLinked(_, _)
RowsOfLinked(cs, os) ==
    IF cs = << >> THEN << >>
    ELSE (IF LinkFound(Head(os))
          THEN << [first_name |-> Head(cs).first_name,
                   last_name |-> Head(cs).last_name,
                   linkedin |-> Head(os).href[1]] >>
          ELSE << >>) \o RowsOfLinked(Tail(cs), Tail(os))

RowNames(rows) ==
    [i \in 1..Len(rows) |-> [first_name |-> rows[i].first_name,
                             last_name |-> rows[i].last_name,
                             linkedin |-> rows[i].linkedin]]

\* C3: the exported rows are exactly the candidates whose profile page showed
\* a non-empty link, in extraction order: a candidate without one is not
\* exported, every candidate with one is, and nothing is deduplicated.
C3_ExportsExactlyLinkedInOrder ==
    csv_open =>
        /\ Len(links) = Len(extracted)
        /\ RowNames(csv_rows) = RowsOfLinked(extracted, links)

C3_Witness ==
    /\ csv_open
    /\ Len(extracted) = 3
    /\ extracted[1] = extracted[3]
    /\ ~LinkFound(links[2])
    /\ Len(csv_rows) = 2
    /\ csv_rows[1] = csv_rows[2]

PreExportSteps == RaisingSteps \ { "export", "close" }

\* C6: a run in which a step before the export raised ends in the handler,
\* which prints the error and returns; the CSV file is never opened and no
\* row is written, whatever had been collected.
C6_FailureBeforeExportWritesNothing ==
    failed_at \in PreExportSteps =>
        /\ pc \in { "except", "returned" }
        /\ pc = "returned" => printed
        /\ ~csv_open /\ csv_header = << >> /\ csv_rows = << >>

C6_Witness ==
    /\ pc = "returned"
    /\ failed_at = "resolve"
    /\ printed
    /\ \E i \in 1..Len(participants) : HasLinkedin(participants[i])

LoginEvents ==
    { "goto_login", "fill_email", "request_code", "console_read", "fill_code",
      "marker_seen" }

Happened(ev) == \E i \in 1..Len(trace) : trace[i] = ev

Before(a, b) ==
    \E i, j \in 1..Len(trace) : i < j /\ trace[i] = a /\ trace[j] = b

IsPrefix(s, t) == Len(s) <= Len(t) /\ \A i \in 1..Len(s) : s[i] = t[i]

\* the session file is there and this run did not write it
BundleAtStart == session_file /\ session_writes = 0

\* C7: with a persisted bundle at run start no login step is performed and
\* the session file is not written; without one the run goes NoSession ->
\* AwaitingCode -> Authenticated in that order, entering Authenticated once,
\* and persists the bundle after the post-login marker and before the event
\* page is navigated to.
C7_SessionStateMachine ==
    /\ BundleAtStart =>
          /\ \A ev \in LoginEvents \cup { "persist" } : ~Happened(ev)
          /\ IsPrefix(state_log, << "Authenticated" >>)
    /\ ~BundleAtStart =>
          /\ IsPrefix(state_log, << "NoSession", "AwaitingCode", "Authenticated" >>)
          /\ session_writes <= 1
          /\ Happened("persist") =>
                /\ Before("marker_seen", "persist")
                /\ login_state = "Authenticated"
          /\ Happened("goto_event") => Before("persist", "goto_event")
    /\ state_log # << >> => login_state = state_log[Len(state_log)]
    /\ session_writes = Cardinality({ i \in 1..Len(trace) : trace[i] = "persist" })

C7_Witness ==
    /\ pc = "returned"
    /\ failed_at = "none"
    /\ session_writes = 1
    /\ state_log = << "NoSession", "AwaitingCode", "Authenticated" >>

\* ---- the record extractor on one entry (ExtractSpec)

Extracted == outcome # << >>

\* C4: an entry whose display name contains "@" produces no candidate,
\* whatever its profile-link attribute is.
C4_EmailNamesYieldNoCandidate ==
    Extracted /\ (\E i \in 1..Len(entry.name) : entry.name[i] = "@") =>
        outcome[1].kind = "skip" /\ outcome[1].cand = << >>

C4_Witness ==
    /\ Extracted
    /\ entry.name = UserEmail
    /\ entry.href = << "/user/usr-1" >>
    /\ outcome[1].kind = "skip"

\* out is text with its first character upper-cased and the others lower-cased
IsCapitalized(out, text) ==
    /\ Len(out) = Len(text)
    /\ \A i \in 1..Len(text) :
          out[i] = IF i = 1 THEN Upper(text[i]) ELSE Lower(text[i])

\* text[b..e] is the first token of text, and rest what follows the
\* whitespace run after it
FirstTokenAt(text, b, e) ==
    /\ \A i \in 1..(b - 1) : IsSpace(text[i])
    /\ \A i \in b..e : ~IsSpace(text[i])
    /\ e = Len(text) \/ IsSpace(text[e + 1])

RestAt(text, e, r) ==
    /\ \A i \in (e + 1)..(r - 1) : IsSpace(text[i])
    /\ r = Len(text) + 1 \/ ~IsSpace(text[r])

\* C5: for an entry that yields a candidate, first_name is the capitalized
\* first token of the name and last_name the capitalized whole remainder after
\* the whitespace run that follows it ("" if there is none): "Jane Doe" gives
\* "Jane" and "Doe", "Madonna" gives "Madonna" and "".
C5_NameSplitOnFirstWhitespaceRun ==
    Extracted /\ outcome[1].kind = "candidate" =>
        LET text == entry.name
            c == outcome[1].cand[1]
        IN  /\ \E b \in 1..Len(text), e \in 1..Len(text), r \in 1..(Len(text) + 1) :
                  /\ b <= e /\ e < r
                  /\ FirstTokenAt(text, b, e)
                  /\ RestAt(text, e, r)
                  /\ IsCapitalized(c.first_name, SubSeq(text, b, e))
                  /\ IsCapitalized(c.last_name, SubSeq(text, r, Len(text)))
            /\ text = JaneDoe =>
                  /\ c.first_name = << "J","a","n","e" >>
                  /\ c.last_name = << "D","o","e" >>
            /\ text = Madonna =>
                  /\ c.first_name = Madonna
                  /\ c.last_name = << >>

C5_Witness ==
    /\ Extracted
    /\ entry.name = JaneDoe
    /\ outcome[1].kind = "candidate"
    /\ outcome[1].cand[1].last_name = << "D","o","e" >>

\* C8: extracting one entry yields no candidate or one candidate and never
\* raises, whatever the display name (empty and whitespace-only included) and
\* the profile-link attribute are.
C8_ExtractingAnEntryNeverRaises ==
    Extracted => outcome[1].kind \in { "skip", "candidate" }

=============================================================================
